---- MODULE Spec2Model ----
(***************************************************************************)
(* Stage-flow aggregation of the job-application tracker: the SankeyView   *)
(* component (frontend/src/utils/api.js, lines 49-441) turns the company   *)
(* list of a project into a node/link graph; the TableView component       *)
(* (unnamed/part_002) edits the stages and saves them to the server on     *)
(* Save; its variant frontend/src/components/TableView.jsx saves every     *)
(* edit through a debounced call; App (frontend/src/App.jsx) and           *)
(* ProjectSelector keep the project list and the current project.          *)
(*                                                                         *)
(* Time is counted in ticks, TicksPerDay ticks to a day; a stage date is a *)
(* whole day number, NoDate (null or '') or BadDate (a non-empty string    *)
(* that new Date() turns into Invalid Date).                               *)
(***************************************************************************)
EXTENDS Integers, Sequences, FiniteSets, TLC

VARIABLES
    server,      \* the company list companiesAPI.getByProject delivers
    companies,   \* useState: the company list held by SankeyView
    loading,     \* useState: the loading flag
    now,         \* the wall clock, in ticks
    asOf,        \* the value new Date() had when sankeyData was last computed
    walked,      \* per company, the result of sortStagesByDateThenOrder
    sankeyData,  \* useMemo: the graph handed to Plot
    windowHeight, \* useState: window.innerHeight at the last resize
    stored,         \* the stages the server stores, per company id
    rows,           \* TableView useState companies: the rows of the grid
    tableLoading,   \* TableView useState loading
    expandedView,   \* TableView useState expandedView
    editingMode,    \* TableView useState editingMode
    unsavedChanges, \* TableView useState unsavedChanges: per company id the
                    \* object of its changed fields (name, position, link, stages)
    sent,           \* the requests the last handler sent to the server
    details,        \* the name, position and link the server stores, per company id
    cells,          \* the name, position and link the rows of the grid show
    toasts,         \* the messages the last handler reported
    pendingCompany, \* debouncedSaveCompany: the arguments waiting for its timer
    pendingStages,  \* debouncedSaveStages: the arguments waiting for its timer
    lastEdit,       \* the value of the last edit: texts per company and field,
                    \* stages per company
    passed,         \* the arguments of every call of saveCompany (texts) and
                    \* of saveStages (stages)
    currentProject, \* App useState currentProject: a project id or NoProject
    projects,       \* App useState projects
    appLoading,     \* App useState loading
    serverProjects, \* the projects the server stores
    projectLoads,   \* the calls of loadProjects awaiting projectsAPI.getAll,
                    \* each with the currentProject its closure holds
    fetches         \* the calls of companiesAPI.getByProject of SankeyView,
                    \* each with its project id and whether it is answered

viewVars == <<server, companies, loading, now, asOf, walked, sankeyData, windowHeight>>
tableVars ==
    <<stored, rows, tableLoading, expandedView, editingMode, unsavedChanges, sent,
      details, cells, toasts>>
autoVars == <<pendingCompany, pendingStages, lastEdit, passed>>
appVars == <<currentProject, projects, appLoading, serverProjects, projectLoads, fetches>>
vars == <<viewVars, tableVars, autoVars, appVars>>

----------------------------------------------------------------------------
(* Bounds of the model *)

MaxCompanies == 2
MaxStages == 2
MaxDay == 1
MaxNowOffset == 3
TicksPerDay == 2

----------------------------------------------------------------------------
(* Program constants *)

StaleDays == 30
NoDate == -1
BadDate == -2
Undefined == -1

stageOrder ==
    <<"Applied", "First Interview", "Technical Interview", "Final Interview",
      "Offer", "Rejected", "No Answer">>

\* Array.prototype.indexOf on stageOrder: 0-based, -1 when absent
indexOf(name) ==
    IF \E i \in DOMAIN stageOrder : stageOrder[i] = name
    THEN (CHOOSE i \in DOMAIN stageOrder : stageOrder[i] = name) - 1
    ELSE -1

----------------------------------------------------------------------------
(* Numbers that may be NaN *)

Num(n) == [nan |-> FALSE, v |-> n]
NaN == [nan |-> TRUE, v |-> 0]

\* new Date(d).getTime(): NaN for a string that is not a date
DateValue(d) == IF d = BadDate THEN NaN ELSE Num(d * TicksPerDay)

\* x - y on numbers that may be NaN
Minus(x, y) == IF x.nan \/ y.nan THEN NaN ELSE Num(x.v - y.v)

----------------------------------------------------------------------------
(* The comparator of sortStagesByDateThenOrder *)

\* the fallback on the logical stage order (lines 107-112 and 122-127)
byStageOrder(a, b) ==
    LET orderA == indexOf(a.stage_name)
        orderB == indexOf(b.stage_name)
    IN  IF orderA = -1 /\ orderB = -1 THEN 0
        ELSE IF orderA = -1 THEN 1
        ELSE IF orderB = -1 THEN -1
        ELSE orderA - orderB

dateComparison(a, b) == Minus(DateValue(a.date), DateValue(b.date))

compareFn(a, b) ==
    IF a.date = NoDate /\ b.date = NoDate THEN Num(byStageOrder(a, b))
    ELSE IF a.date = NoDate THEN Num(1)
    ELSE IF b.date = NoDate THEN Num(-1)
    ELSE LET dc == dateComparison(a, b)
         IN  IF ~dc.nan /\ dc.v = 0 THEN Num(byStageOrder(a, b)) ELSE dc

\* what Array.prototype.sort makes of the comparator's result: NaN counts as +0
SortCompare(a, b) == LET r == compareFn(a, b) IN IF r.nan THEN 0 ELSE r.v

----------------------------------------------------------------------------
(* Array.prototype.sort *)

\* In the operators below cmp[i][j] is the comparator's result for the
\* elements i and j of the array s.

\* the comparator is consistent on the elements of s (a strict weak order):
\* only then is the sort order defined by the language
Consistent(s, cmp) ==
    /\ \A i \in DOMAIN s : cmp[i][i] = 0
    /\ \A i, j \in DOMAIN s : (cmp[i][j] < 0) <=> (cmp[j][i] > 0)
    /\ \A i, j, k \in DOMAIN s :
          /\ (cmp[i][j] = 0 /\ cmp[j][k] = 0) => cmp[i][k] = 0
          /\ (cmp[i][j] < 0 /\ cmp[j][k] < 0) => cmp[i][k] < 0
          /\ (cmp[i][j] < 0 /\ cmp[j][k] = 0) => cmp[i][k] < 0
          /\ (cmp[i][j] = 0 /\ cmp[j][k] < 0) => cmp[i][k] < 0

\* the place element k of s takes in the stable sort of s
Rank(s, k, cmp) ==
    1 + Cardinality({j \in DOMAIN s : cmp[j][k] < 0 \/ (cmp[j][k] = 0 /\ j < k)})

\* the stable sort of s (the sort is stable since ES2019)
StableSort(s, cmp) ==
    [p \in DOMAIN s |-> s[CHOOSE k \in DOMAIN s : Rank(s, k, cmp) = p]]

AllOrders(s) == {[p \in DOMAIN s |-> s[f[p]]] : f \in Permutations(DOMAIN s)}

\* the results [...s].sort(comparator) can have: the stable sort when the
\* comparator is consistent, an implementation-defined order of the elements
\* otherwise
SortOutcomes(s, cmp) ==
    IF Consistent(s, cmp) THEN {StableSort(s, cmp)} ELSE AllOrders(s)

sortStagesByDateThenOrder(stages) ==
    SortOutcomes(stages, [i \in DOMAIN stages |->
                            [j \in DOMAIN stages |-> SortCompare(stages[i], stages[j])]])

----------------------------------------------------------------------------
(* The aggregator: the useMemo callback computing sankeyData *)

hasName(stages, name) == \E i \in DOMAIN stages : stages[i].stage_name = name

\* a filter that keeps every stage
filteredStages_keepAll(stages) == stages

\* stages.filter(stage => stage.stage_name !== 'No Answer')
filteredStages(stages) == SelectSeq(stages, LAMBDA s : s.stage_name # "No Answer")

\* a flows.set that stores 1 instead of adding 1
flowsSet_noIncrement(flows, source, target) ==
    IF \E i \in DOMAIN flows : flows[i].source = source /\ flows[i].target = target
    THEN flows
    ELSE Append(flows, [source |-> source, target |-> target, count |-> 1])

\* flows.set(key, (flows.get(key) || 0) + 1) with key = `${source}->${target}`;
\* a Map keeps the place of a key it already holds
flowsSet(flows, source, target) ==
    IF \E i \in DOMAIN flows : flows[i].source = source /\ flows[i].target = target
    THEN [i \in DOMAIN flows |->
            IF flows[i].source = source /\ flows[i].target = target
            THEN [flows[i] EXCEPT !.count = @ + 1]
            ELSE flows[i]]
    ELSE Append(flows, [source |-> source, target |-> target, count |-> 1])

\* the loop over consecutive stages, after its iterations for 1..i
RECURSIVE pairLoop(_, _, _)
pairLoop(acc, sortedStages, i) ==
    IF i = 0 THEN acc
    ELSE LET prev == pairLoop(acc, sortedStages, i - 1)
             source == sortedStages[i].stage_name
             target == sortedStages[i + 1].stage_name
         IN  [flows |-> flowsSet(prev.flows, source, target),
              nodes |-> prev.nodes \cup {source, target}]

\* daysSinceLastUpdate >= 30 in place of > 30
moreThan30Days_atLeast(today, lastStage) ==
    LET elapsed == Minus(Num(today), DateValue(lastStage.date))
    IN  ~elapsed.nan /\ elapsed.v >= StaleDays * TicksPerDay

\* daysSinceLastUpdate > 30, with daysSinceLastUpdate =
\* (new Date() - new Date(lastStage.date)) / (1000 * 60 * 60 * 24)
moreThan30Days(today, lastStage) ==
    LET elapsed == Minus(Num(today), DateValue(lastStage.date))
    IN  ~elapsed.nan /\ elapsed.v > StaleDays * TicksPerDay

\* an entry gate that lets every company pass
hasApplied_always(filtered) == TRUE

\* filteredStages.some(s => s.stage_name === 'Applied')
hasApplied(filtered) == hasName(filtered, "Applied")

\* filteredStages.some(s => s.stage_name === 'Offer')
hasOffer(filtered) == hasName(filtered, "Offer")

\* a check that overlooks the Rejected stage
hasRejected_never(filtered) == FALSE

\* filteredStages.some(s => s.stage_name === 'Rejected')
hasRejected(filtered) == hasName(filtered, "Rejected")

\* the check whether the company should flow to "No Answer"
flowsToNoAnswer(filtered, sortedStages, today) ==
    /\ ~hasOffer(filtered)
    /\ ~hasRejected(filtered)
    /\ Len(sortedStages) > 0
    /\ sortedStages[Len(sortedStages)].date # NoDate
    /\ moreThan30Days(today, sortedStages[Len(sortedStages)])

\* a loop body that leaves out nodes.add(firstStage)
processCompany_noFirstStage(acc, company, sortedStages, today) ==
    LET stages == company.stages
        filtered == filteredStages(stages)
        paired == pairLoop(acc, sortedStages, Len(sortedStages) - 1)
        lastStage == sortedStages[Len(sortedStages)]
    IN  IF Len(stages) = 0 THEN acc
        ELSE IF Len(filtered) = 0 THEN acc
        ELSE IF ~hasApplied(filtered) THEN acc
        ELSE IF flowsToNoAnswer(filtered, sortedStages, today)
             THEN [flows |-> flowsSet(paired.flows, lastStage.stage_name, "No Answer"),
                   nodes |-> paired.nodes \cup {"No Answer"}]
             ELSE paired

\* the body of companies.forEach
processCompany(acc, company, sortedStages, today) ==
    LET stages == company.stages
        filtered == filteredStages(stages)
        first == [flows |-> acc.flows,
                  nodes |-> acc.nodes \cup {sortedStages[1].stage_name}]
        paired == pairLoop(first, sortedStages, Len(sortedStages) - 1)
        lastStage == sortedStages[Len(sortedStages)]
    IN  IF Len(stages) = 0 THEN acc
        ELSE IF Len(filtered) = 0 THEN acc
        ELSE IF ~hasApplied(filtered) THEN acc
        ELSE IF flowsToNoAnswer(filtered, sortedStages, today)
             THEN [flows |-> flowsSet(paired.flows, lastStage.stage_name, "No Answer"),
                   nodes |-> paired.nodes \cup {"No Answer"}]
             ELSE paired

\* companies.forEach, after the first i companies
RECURSIVE companyLoop(_, _, _, _)
companyLoop(cs, sorted, today, i) ==
    IF i = 0 THEN [flows |-> <<>>, nodes |-> {}]
    ELSE processCompany(companyLoop(cs, sorted, today, i - 1), cs[i], sorted[i], today)

\* the comparator of sortedFlows
flowCompare(a, b) ==
    LET sourceOrderA == indexOf(a.source)
        sourceOrderB == indexOf(b.source)
        targetOrderA == indexOf(a.target)
        targetOrderB == indexOf(b.target)
    IN  IF sourceOrderA # sourceOrderB THEN sourceOrderA - sourceOrderB
        ELSE targetOrderA - targetOrderB

\* nodeMap.get(name): the 0-based place in nodeList, undefined when absent
nodeMapGet(nodeList, name) ==
    IF \E i \in DOMAIN nodeList : nodeList[i] = name
    THEN (CHOOSE i \in DOMAIN nodeList : nodeList[i] = name) - 1
    ELSE Undefined

\* the filter computing noAnswerCount
noAnswerQualifies(company, sortedStages, today) ==
    LET filtered == filteredStages(company.stages)
    IN  /\ ~hasOffer(filtered)
        /\ ~hasRejected(filtered)
        /\ Len(filtered) > 0
        /\ sortedStages[Len(sortedStages)].date # NoDate
        /\ moreThan30Days(today, sortedStages[Len(sortedStages)])

\* a count of stage records in place of companies
nodeCount_records(node, cs, sorted, today) ==
    IF node = "No Answer"
    THEN Cardinality({i \in DOMAIN cs : noAnswerQualifies(cs[i], sorted[i], today)})
    ELSE Cardinality({<<i, p>> \in (DOMAIN cs) \X (1 .. MaxStages + 2) :
                         p \in DOMAIN cs[i].stages /\ cs[i].stages[p].stage_name = node})

\* the number in node.label and node.customdata
nodeCount(node, cs, sorted, today) ==
    IF node = "No Answer"
    THEN Cardinality({i \in DOMAIN cs : noAnswerQualifies(cs[i], sorted[i], today)})
    ELSE Cardinality({i \in DOMAIN cs : hasName(cs[i].stages, node)})

\* the value of the useMemo callback
computeSankeyData(cs, sorted, today) ==
    LET built == companyLoop(cs, sorted, today, Len(cs))
        nodeList == SelectSeq(stageOrder, LAMBDA stage : stage \in built.nodes)
        sortedFlows ==
            StableSort(built.flows,
                       [i \in DOMAIN built.flows |->
                          [j \in DOMAIN built.flows |->
                             flowCompare(built.flows[i], built.flows[j])]])
        counts == [i \in DOMAIN nodeList |-> nodeCount(nodeList[i], cs, sorted, today)]
    IN  [nodeList |-> nodeList,
         label |-> counts,
         customdata |-> counts,
         source |-> [i \in DOMAIN sortedFlows |-> nodeMapGet(nodeList, sortedFlows[i].source)],
         target |-> [i \in DOMAIN sortedFlows |-> nodeMapGet(nodeList, sortedFlows[i].target)],
         value |-> [i \in DOMAIN sortedFlows |-> sortedFlows[i].count],
         labels |-> sortedFlows]

\* a sort of company.stages itself, in place
stagesAfterRun_inPlace(company, sortedStages) == sortedStages

\* company.stages once the callback has run: stages.filter(...) builds a new
\* array and [...stages].sort(...) sorts a copy, nothing writes to the array
\* or to its records
stagesAfterRun(company, sortedStages) == company.stages

\* the company list once the callback has run
companiesAfterRun(cs, sorted) ==
    [i \in DOMAIN cs |-> [cs[i] EXCEPT !.stages = stagesAfterRun(cs[i], sorted[i])]]

\* the choices of sort results for the companies of cs
RECURSIVE SortChoices(_)
SortChoices(cs) ==
    IF Len(cs) = 0 THEN {<<>>}
    ELSE {Append(w, s) : w \in SortChoices(SubSeq(cs, 1, Len(cs) - 1)),
                         s \in sortStagesByDateThenOrder(filteredStages(cs[Len(cs)].stages))}

----------------------------------------------------------------------------
(* The data the server can hold *)

Dates == {NoDate, BadDate} \cup (0 .. MaxDay)

Stage(name, date) == [stage_name |-> name, date |-> date, order |-> indexOf(name)]

Records(names, dates) == {Stage(n, d) : n \in names, d \in dates}

StageLists(records, max) == UNION {[1 .. k -> records] : k \in 0 .. max}

Company(id, stages) == [id |-> id, stages |-> stages]

\* the clock readings: from 30 days after day 0 on
EarlyNow == StaleDays * TicksPerDay
LateNow == StaleDays * TicksPerDay + MaxNowOffset
Nows == EarlyNow .. LateNow

\* one company, its stages dated in every way
DatedNames == {"Applied", "First Interview", "Offer"}
DatedCompanies ==
    {<<Company(1, s)>> : s \in StageLists(Records(DatedNames, Dates), MaxStages)}

\* one company, its stages named in every way
AllNames == {"Applied", "First Interview", "Offer", "Rejected", "No Answer",
             "Withdrawn", "Screening"}
NamedCompanies ==
    {<<Company(1, s)>> : s \in StageLists(Records(AllNames, {0, NoDate}), MaxStages)}

\* one company with one stage more
LongNames == {"Applied", "First Interview"}
LongCompanies ==
    {<<Company(1, s)>> :
        s \in StageLists(Records(LongNames, {0, MaxDay, BadDate}), MaxStages + 1)}

\* one company holding a name of the vocabulary or a name outside it in
\* several records
RepeatedNames == {"Applied", "Withdrawn"}
RepeatedCompanies ==
    {<<Company(1, s)>> : s \in StageLists(Records(RepeatedNames, {0}), MaxStages + 1)}

\* several companies, no record twice in one company
CoreRecords ==
    {Stage("Applied", 0), Stage("First Interview", 0), Stage("Offer", MaxDay)}
CoreStageLists ==
    {s \in StageLists(CoreRecords, MaxStages) :
        \A i, j \in DOMAIN s : s[i] = s[j] => i = j}
CompanyLists(n) ==
    {[i \in 1 .. n |-> Company(i, f[i])] : f \in [1 .. n -> CoreStageLists]}
ManyCompanies == UNION {CompanyLists(n) : n \in 2 .. MaxCompanies}

\* TableView as it is mounted: the server holds no company or one
StoredAtFirst ==
    {<<>>} \cup
    {[c \in {1} |-> s] : s \in {<<>>, <<Stage("Applied", 0)>>,
                                <<Stage("Applied", 0), Stage("Offer", MaxDay)>>}}

\* the useState initial values of TableView
TableIdle ==
    /\ rows = <<>>
    /\ tableLoading = TRUE
    /\ expandedView = FALSE
    /\ editingMode = FALSE
    /\ unsavedChanges = <<>>
    /\ sent = <<>>
    /\ cells = <<>>
    /\ toasts = {}

\* the fields handleAddCompany gives a new company
newCompany == [name |-> "New Company", position |-> "New Position", link |-> ""]

TableMounted ==
    /\ stored \in StoredAtFirst
    /\ details = [c \in DOMAIN stored |-> newCompany]
    /\ TableIdle

\* the table of the other tab is not shown while the diagram is
TableNotShown ==
    /\ stored = <<>>
    /\ details = <<>>
    /\ TableIdle

\* the debounced savers with no call waiting, and nothing edited yet
AutoIdle ==
    /\ pendingCompany = <<>>
    /\ pendingStages = <<>>
    /\ lastEdit = [texts |-> <<>>, stages |-> <<>>]
    /\ passed = [texts |-> {}, stages |-> {}]

\* the value null of currentProject
NoProject == 0

\* the App around the component is left out: one project, already loaded
AppNotShown ==
    /\ currentProject = 1
    /\ projects = <<1>>
    /\ appLoading = FALSE
    /\ serverProjects = {1}
    /\ projectLoads = <<>>
    /\ fetches = <<>>

\* window.innerHeight when the component mounts, and the heights a resize
\* can bring
InnerHeight == 800
Heights == {InnerHeight, 600}

----------------------------------------------------------------------------
(* SankeyView *)

\* the company list the server holds is one of the above; the larger sets are
\* read at a few of the clock readings only
Init ==
    /\ \/ server \in DatedCompanies /\ now \in Nows
       \/ server \in NamedCompanies /\ now \in {EarlyNow, LateNow}
       \/ server \in LongCompanies /\ now = LateNow
       \/ server \in ManyCompanies /\ now = EarlyNow + 1
       \/ server \in RepeatedCompanies /\ now = EarlyNow
       \/ server = <<>> /\ now = EarlyNow
    /\ companies = <<>>
    /\ loading = TRUE
    /\ asOf = now
    /\ walked = <<>>
    /\ sankeyData = computeSankeyData(<<>>, <<>>, now)
    /\ windowHeight = InnerHeight
    /\ TableNotShown
    /\ AutoIdle
    /\ AppNotShown

\* loadCompanies, the request succeeding: setCompanies(response.data),
\* setLoading(false), and the render that recomputes sankeyData
LoadCompanies ==
    /\ loading
    /\ loading' = FALSE
    /\ asOf' = now
    /\ \E w \in SortChoices(server) :
          /\ walked' = w
          /\ sankeyData' = computeSankeyData(server, w, now)
          /\ companies' = companiesAfterRun(server, w)
    /\ UNCHANGED <<server, now, windowHeight>>
    /\ UNCHANGED <<tableVars, autoVars, appVars>>

\* loadCompanies, the request failing: only setLoading(false)
LoadCompaniesFailed ==
    /\ loading
    /\ loading' = FALSE
    /\ UNCHANGED <<server, companies, now, asOf, walked, sankeyData, windowHeight>>
    /\ UNCHANGED <<tableVars, autoVars, appVars>>

Next == LoadCompanies \/ LoadCompaniesFailed

Spec == Init /\ [][Next]_vars

----------------------------------------------------------------------------
(* SankeyView while it stays open: the clock runs and the window is resized *)

\* one company with the stages of an application that is answered or not
OpenNames == {"Applied", "Offer"}
OpenCompanies ==
    {<<Company(1, s)>> : s \in StageLists(Records(OpenNames, 0 .. MaxDay), MaxStages)}

\* layout.height of the diagram
diagramHeight(height) == IF height - 380 > 400 THEN height - 380 ELSE 400

OpenInit ==
    /\ server \in OpenCompanies
    /\ now = EarlyNow
    /\ companies = <<>>
    /\ loading = TRUE
    /\ asOf = now
    /\ walked = <<>>
    /\ sankeyData = computeSankeyData(<<>>, <<>>, now)
    /\ windowHeight = InnerHeight
    /\ TableNotShown
    /\ AutoIdle
    /\ AppNotShown

\* time passes; nothing in the component is told
Tick ==
    /\ now < LateNow
    /\ now' = now + 1
    /\ UNCHANGED <<server, companies, loading, asOf, walked, sankeyData, windowHeight>>
    /\ UNCHANGED <<tableVars, autoVars, appVars>>

\* handleResize: setWindowHeight(window.innerHeight); windowHeight is a
\* dependency of useMemo, so the render recomputes sankeyData, reading
\* new Date() again
Resize ==
    /\ \E h \in Heights \ {windowHeight} : windowHeight' = h
    /\ asOf' = now
    /\ \E w \in SortChoices(companies) :
          /\ walked' = w
          /\ sankeyData' = computeSankeyData(companies, w, now)
          /\ companies' = companiesAfterRun(companies, w)
    /\ UNCHANGED <<server, loading, now>>
    /\ UNCHANGED <<tableVars, autoVars, appVars>>

OpenNext == LoadCompanies \/ LoadCompaniesFailed \/ Tick \/ Resize

OpenSpec == OpenInit /\ [][OpenNext]_vars

----------------------------------------------------------------------------
(* TableView with the Edit, Save and Cancel buttons (unnamed/part_002) *)

\* the stage columns of the table
COMMON_STAGES ==
    <<"Applied", "First Interview", "Technical Interview", "Final Interview",
      "Offer", "Rejected", "No Answer">>

\* COMMON_STAGES.indexOf(stage)
columnIndexOf(stage) ==
    IF \E i \in DOMAIN COMMON_STAGES : COMMON_STAGES[i] = stage
    THEN (CHOOSE i \in DOMAIN COMMON_STAGES : COMMON_STAGES[i] = stage) - 1
    ELSE -1

\* the ids the server gives to companies, the columns the user edits and the
\* dates the date picker delivers
TableIds == {1}
EditedStages == {"Applied", "Offer", "No Answer"}
PickedDates == 0 .. MaxDay

\* stages.findIndex(s => s.stage_name === stage), 1-based, 0 when absent
findIndex(stages, stage) ==
    IF \E i \in DOMAIN stages : stages[i].stage_name = stage
    THEN CHOOSE i \in DOMAIN stages :
            /\ stages[i].stage_name = stage
            /\ \A j \in 1 .. i - 1 : stages[j].stage_name # stage
    ELSE 0

\* stages.splice(index, 1)
splice(stages, index) ==
    [j \in 1 .. Len(stages) - 1 |-> IF j < index THEN stages[j] ELSE stages[j + 1]]

\* the stages array after the valueSetter of the column of stage
valueSetter(stages, stage, newDate) ==
    LET existingStageIndex == findIndex(stages, stage)
    IN  IF newDate # NoDate
        THEN IF existingStageIndex > 0
             THEN [stages EXCEPT ![existingStageIndex].date = newDate]
             ELSE Append(stages, [stage_name |-> stage, date |-> newDate,
                                  order |-> columnIndexOf(stage)])
        ELSE IF existingStageIndex > 0
             THEN splice(stages, existingStageIndex)
             ELSE stages

\* stages.sort((x, y) => new Date(y.date) - new Date(x.date)): newest first
newestFirst(stages) ==
    StableSort(stages, [i \in DOMAIN stages |->
                          [j \in DOMAIN stages |-> stages[j].date - stages[i].date]])

\* getLastUpdateDate(company); new Date(0) for a company without stages
Epoch == -1
getLastUpdateDate(company) ==
    IF Len(company.stages) = 0 THEN Epoch ELSE newestFirst(company.stages)[1].date

\* response.data of companiesAPI.getByProject, in the order of the ids
RECURSIVE responseData(_, _)
responseData(store, ids) ==
    IF ids = {} THEN <<>>
    ELSE LET c == CHOOSE c \in ids : \A d \in ids : c <= d
         IN  <<Company(c, store[c])>> \o responseData(store, ids \ {c})

\* the rows loadCompanies sets: the companies sorted by their last update,
\* newest first; the comparator sorts the stages of the companies it is
\* called on in place, and it is called only when there are two companies
sortedCompanies(store) ==
    LET data == responseData(store, DOMAIN store)
        inner == [i \in DOMAIN data |-> Company(data[i].id, newestFirst(data[i].stages))]
    IN  IF Len(data) < 2 THEN data
        ELSE StableSort(inner, [i \in DOMAIN inner |->
                                  [j \in DOMAIN inner |->
                                     getLastUpdateDate(inner[j]) - getLastUpdateDate(inner[i])]])

\* the rows once the grid has drawn them: the valueGetters of the compact
\* view (Current Stage, Last Update) sort the stages of every row in place
rendered(rs, expanded) ==
    IF expanded THEN rs
    ELSE [i \in DOMAIN rs |-> Company(rs[i].id, newestFirst(rs[i].stages))]

\* {...obj, [key]: value}
Put(obj, key, value) ==
    [k \in DOMAIN obj \cup {key} |-> IF k = key THEN value ELSE obj[k]]

\* the text columns of the table and the texts the user types into them
Fields == {"name", "position", "link"}
TypedTexts == {"", "Acme"}

\* the points of saveStages at which a request can fail: none (0), the
\* request for the current stages (1), or a later request
FailPoints == 0 .. MaxStages + 1

\* unsavedChanges[params.data.id] || {}
companyChanges(id) == IF id \in DOMAIN unsavedChanges THEN unsavedChanges[id] ELSE <<>>

\* changes.name || changes.position || changes.link
anyFieldTruthy(changes) == \E f \in Fields : f \in DOMAIN changes /\ changes[f] # ""

\* the updates object: the fields of changes that are not undefined
updatesOf(changes) == [f \in Fields \cap DOMAIN changes |-> changes[f]]

\* saveCompany: companiesAPI.update(companyId, updates); a failure is caught
\* and reported here
saveCompany(acc, companyId, updates, fail) ==
    LET ok == ~fail /\ companyId \in DOMAIN acc.details
    IN  [store |-> acc.store,
         details |-> IF ok
                     THEN [acc.details EXCEPT ![companyId] =
                              [f \in Fields |-> IF f \in DOMAIN updates
                                                THEN updates[f] ELSE @[f]]]
                     ELSE acc.details,
         requests |-> Append(acc.requests,
                             [op |-> "companies.update", company |-> companyId,
                              updates |-> updates, ok |-> ok]),
         toasts |-> IF ok THEN acc.toasts
                    ELSE acc.toasts \cup {"Failed to save company"}]

\* a saveStages without its loop over the current stages: no delete is sent
requestsOfSaveStages_noDelete(companyId, currentStages, stages) ==
    [i \in DOMAIN stages |->
        [op |-> IF findIndex(currentStages, stages[i].stage_name) > 0
                THEN "update" ELSE "create",
         company |-> companyId, stage_name |-> stages[i].stage_name,
         date |-> stages[i].date, order |-> stages[i].order]]

\* saveStages: the requests that follow the one for the current stages, in
\* the order they are sent: a delete for every current stage absent from
\* stages, then an update or a create for every stage of stages
requestsOfSaveStages(companyId, currentStages, stages) ==
    LET gone == SelectSeq(currentStages,
                          LAMBDA cur : findIndex(stages, cur.stage_name) = 0)
    IN  [i \in DOMAIN gone |->
            [op |-> "delete", company |-> companyId, stage_name |-> gone[i].stage_name]]
        \o
        [i \in DOMAIN stages |->
            [op |-> IF findIndex(currentStages, stages[i].stage_name) > 0
                    THEN "update" ELSE "create",
             company |-> companyId, stage_name |-> stages[i].stage_name,
             date |-> stages[i].date, order |-> stages[i].order]]

\* the stages the server holds of the company once it has served the request
stageRequestApplied(held, req) ==
    IF req.op = "delete"
    THEN splice(held, findIndex(held, req.stage_name))
    ELSE IF req.op = "update"
    THEN LET k == findIndex(held, req.stage_name)
         IN  [held EXCEPT ![k].date = req.date, ![k].order = req.order]
    ELSE IF req.op = "create"
    THEN Append(held, [stage_name |-> req.stage_name, date |-> req.date,
                       order |-> req.order])
    ELSE held

\* the stages the server holds once it has served the first n requests
RECURSIVE storedAfterRequests(_, _, _)
storedAfterRequests(held, reqs, n) ==
    IF n = 0 THEN held
    ELSE stageRequestApplied(storedAfterRequests(held, reqs, n - 1), reqs[n])

\* the stages the server holds of the company, none if it has no such company
heldStages(store, companyId) ==
    IF companyId \in DOMAIN store THEN store[companyId] ELSE <<>>

\* the try block of saveStages: the request for the current stages, then the
\* requests of the two loops, sent one after the other; the request numbered
\* failAt fails, and the first failure ends the function in its catch block
sendStageRequests(acc, companyId, requests, failAt) ==
    LET known == companyId \in DOMAIN acc.store
        held == heldStages(acc.store, companyId)
        reqs == <<[op |-> "get", company |-> companyId]>> \o requests
        failing == IF known THEN failAt ELSE 1
        failed == failing \in DOMAIN reqs
        issued == IF failed THEN failing ELSE Len(reqs)
        served == IF failed THEN failing - 1 ELSE Len(reqs)
    IN  [store |-> IF known
                   THEN [acc.store EXCEPT
                            ![companyId] = storedAfterRequests(held, reqs, served)]
                   ELSE acc.store,
         details |-> acc.details,
         requests |-> acc.requests \o
                      [k \in 1 .. issued |-> Put(reqs[k], "ok", k # failing)],
         toasts |-> IF failed THEN acc.toasts \cup {"Failed to save stages"}
                    ELSE acc.toasts]

\* saveStages(companyId, stages)
saveStages(acc, companyId, stages, failAt) ==
    sendStageRequests(acc, companyId,
                      requestsOfSaveStages(companyId,
                                           heldStages(acc.store, companyId), stages),
                      failAt)

\* saveAllChanges, its loop over Object.entries(unsavedChanges) for the ids
\* in todo; fails[c] says which requests for company c fail
RECURSIVE saveLoop(_, _, _, _)
saveLoop(acc, changes, todo, fails) ==
    IF todo = {} THEN acc
    ELSE LET c == CHOOSE c \in todo : \A d \in todo : c <= d
             afterCompany ==
                 IF anyFieldTruthy(changes[c])
                 THEN saveCompany(acc, c, updatesOf(changes[c]), fails[c].company)
                 ELSE acc
             afterStages ==
                 IF "stages" \in DOMAIN changes[c]
                 THEN saveStages(afterCompany, c, changes[c].stages, fails[c].stages)
                 ELSE afterCompany
         IN  saveLoop(afterStages, changes, todo \ {c}, fails)

\* the SankeyView of the other tab is not shown
TableInit ==
    /\ server = <<>>
    /\ now = EarlyNow
    /\ companies = <<>>
    /\ loading = TRUE
    /\ asOf = now
    /\ walked = <<>>
    /\ sankeyData = computeSankeyData(<<>>, <<>>, now)
    /\ windowHeight = InnerHeight
    /\ TableMounted
    /\ AutoIdle
    /\ AppNotShown

\* loadCompanies of the table, on mount
TableLoadCompanies ==
    /\ tableLoading
    /\ rows' = rendered(sortedCompanies(stored), expandedView)
    /\ cells' = details
    /\ tableLoading' = FALSE
    /\ sent' = <<>>
    /\ toasts' = {}
    /\ UNCHANGED <<stored, details, expandedView, editingMode, unsavedChanges>>
    /\ UNCHANGED <<viewVars, autoVars, appVars>>

\* the Edit button
Edit ==
    /\ ~tableLoading
    /\ ~editingMode
    /\ editingMode' = TRUE
    /\ expandedView' = TRUE
    /\ sent' = <<>>
    /\ toasts' = {}
    /\ UNCHANGED <<stored, details, rows, cells, tableLoading, unsavedChanges>>
    /\ UNCHANGED <<viewVars, autoVars, appVars>>

\* the user picks a date in, or clears, the cell of a stage column: the
\* valueSetter changes the row and tracks the change
EditStageDate ==
    /\ ~tableLoading
    /\ editingMode
    /\ expandedView
    /\ \E i \in DOMAIN rows, stage \in EditedStages, newDate \in PickedDates \cup {NoDate} :
          LET stages == valueSetter(rows[i].stages, stage, newDate)
          IN  /\ rows' = [rows EXCEPT ![i].stages = stages]
              /\ unsavedChanges' =
                    Put(unsavedChanges, rows[i].id,
                        Put(companyChanges(rows[i].id), "stages", stages))
    /\ sent' = <<>>
    /\ toasts' = {}
    /\ UNCHANGED <<stored, details, cells, tableLoading, expandedView, editingMode>>
    /\ UNCHANGED <<viewVars, autoVars, appVars>>

\* the user types another text into the Company, Position or Link cell of a
\* row: the grid writes it to the row and onCellValueChanged tracks it
EditField ==
    /\ ~tableLoading
    /\ editingMode
    /\ \E i \in DOMAIN rows, field \in Fields, newValue \in TypedTexts :
          LET id == rows[i].id
          IN  /\ newValue # cells[id][field]
              /\ cells' = [cells EXCEPT ![id][field] = newValue]
              /\ unsavedChanges' =
                    Put(unsavedChanges, id, Put(companyChanges(id), field, newValue))
    /\ sent' = <<>>
    /\ toasts' = {}
    /\ UNCHANGED <<stored, details, rows, tableLoading, expandedView, editingMode>>
    /\ UNCHANGED <<viewVars, autoVars, appVars>>

\* the Save button: saveAllChanges, every request it sends succeeding or
\* failing, and the loadCompanies at its end
Save ==
    /\ ~tableLoading
    /\ editingMode
    /\ \E fails \in [DOMAIN unsavedChanges -> [company : BOOLEAN, stages : FailPoints]] :
          LET done == saveLoop([store |-> stored, details |-> details,
                                requests |-> <<>>, toasts |-> {}],
                               unsavedChanges, DOMAIN unsavedChanges, fails)
          IN  /\ stored' = done.store
              /\ details' = done.details
              /\ sent' = done.requests
              /\ toasts' = done.toasts \cup {"All changes saved successfully"}
              /\ rows' = rendered(sortedCompanies(done.store), FALSE)
              /\ cells' = done.details
    /\ unsavedChanges' = <<>>
    /\ editingMode' = FALSE
    /\ expandedView' = FALSE
    /\ UNCHANGED tableLoading
    /\ UNCHANGED <<viewVars, autoVars, appVars>>

\* the Cancel button, the user confirming: the changes are dropped and the
\* rows loaded again
Cancel ==
    /\ ~tableLoading
    /\ editingMode
    /\ editingMode' = FALSE
    /\ expandedView' = FALSE
    /\ unsavedChanges' = <<>>
    /\ rows' = rendered(sortedCompanies(stored), FALSE)
    /\ cells' = details
    /\ sent' = <<>>
    /\ toasts' = {}
    /\ UNCHANGED <<stored, details, tableLoading>>
    /\ UNCHANGED <<viewVars, autoVars, appVars>>

\* the Add Company button: the company and its 'Applied' stage of today are
\* created and the rows loaded again
AddCompany ==
    /\ ~tableLoading
    /\ editingMode
    /\ \E c \in TableIds \ DOMAIN stored :
          /\ \A d \in TableIds \ DOMAIN stored : c <= d
          /\ \E currentDate \in PickedDates :
                LET appliedStage == [stage_name |-> "Applied", date |-> currentDate,
                                     order |-> columnIndexOf("Applied")]
                IN  /\ stored' = Put(stored, c, <<appliedStage>>)
                    /\ details' = Put(details, c, newCompany)
                    /\ sent' = <<[op |-> "companies.create", company |-> c, ok |-> TRUE],
                                 [op |-> "create", company |-> c,
                                  stage_name |-> appliedStage.stage_name,
                                  date |-> appliedStage.date,
                                  order |-> appliedStage.order, ok |-> TRUE]>>
                    /\ rows' = rendered(sortedCompanies(stored'), expandedView)
                    /\ cells' = details'
    /\ toasts' = {"Company added with Applied stage"}
    /\ UNCHANGED <<tableLoading, expandedView, editingMode, unsavedChanges>>
    /\ UNCHANGED <<viewVars, autoVars, appVars>>

\* the user edits stage dates and adds companies
TableNext == TableLoadCompanies \/ Edit \/ EditStageDate \/ Save \/ Cancel \/ AddCompany

TableSpec == TableInit /\ [][TableNext]_vars

\* the user edits the text cells of the one company the server holds, with
\* its 'Applied' stage
FieldInit ==
    /\ TableInit
    /\ stored = [c \in TableIds |-> <<Stage("Applied", 0)>>]

\* the table left to itself: the request of the mount effect is answered,
\* every other step is the user's
TableLiveSpec == TableSpec /\ WF_vars(TableLoadCompanies)

FieldNext == TableLoadCompanies \/ Edit \/ EditField \/ Save \/ Cancel

FieldSpec == FieldInit /\ [][FieldNext]_vars

----------------------------------------------------------------------------
(* TableView saving by itself, through debounced functions                 *)
(* (frontend/src/components/TableView.jsx)                                 *)

\* the companies of the project, the text cells the user edits and the text
\* typed into them, the stage column the user edits and the date picked
AutoIds == {1, 2}
AutoFields == {"name", "position"}
AutoTexts == {"Acme"}
AutoStages == {"Offer"}
AutoDates == {0}

\* the stage records of a list, as a set
RecordSet(stages) ==
    {[stage_name |-> stages[p].stage_name, date |-> stages[p].date,
      order |-> stages[p].order] : p \in DOMAIN stages}

\* a call of debounce(fn, 1000)(...args): the arguments replace the ones
\* waiting and the timer starts again
debounceCall(pending, args) == <<args>>

\* saveStages of this table: its second loop skips the 'No Answer' stages
autoRequestsOfSaveStages(companyId, currentStages, stages) ==
    SelectSeq(requestsOfSaveStages(companyId, currentStages, stages),
              LAMBDA r : r.op = "delete" \/ r.stage_name # "No Answer")

autoSaveStages(acc, companyId, stages, failAt) ==
    sendStageRequests(acc, companyId,
                      autoRequestsOfSaveStages(companyId,
                                               heldStages(acc.store, companyId), stages),
                      failAt)

\* two companies, each with its 'Applied' stage
AutoInit ==
    /\ server = <<>>
    /\ now = EarlyNow
    /\ companies = <<>>
    /\ loading = TRUE
    /\ asOf = now
    /\ walked = <<>>
    /\ sankeyData = computeSankeyData(<<>>, <<>>, now)
    /\ windowHeight = InnerHeight
    /\ stored = [c \in AutoIds |-> <<Stage("Applied", 0)>>]
    /\ details = [c \in AutoIds |-> newCompany]
    /\ TableIdle
    /\ AutoIdle
    /\ AppNotShown

\* the Full View / Compact View button
ToggleView ==
    /\ ~tableLoading
    /\ expandedView' = ~expandedView
    /\ rows' = rendered(rows, expandedView')
    /\ sent' = <<>>
    /\ toasts' = {}
    /\ UNCHANGED <<stored, details, cells, tableLoading, editingMode, unsavedChanges>>
    /\ UNCHANGED <<viewVars, autoVars, appVars>>

\* the user types another text into the Company or Position cell:
\* onCellValueChanged calls debouncedSaveCompany with that one field
AutoEditField ==
    /\ ~tableLoading
    /\ \E i \in DOMAIN rows, field \in AutoFields, newValue \in AutoTexts :
          LET id == rows[i].id
          IN  /\ newValue # cells[id][field]
              /\ cells' = [cells EXCEPT ![id][field] = newValue]
              /\ pendingCompany' =
                    debounceCall(pendingCompany,
                                 [id |-> id, updates |-> Put(<<>>, field, newValue)])
              /\ lastEdit' = [lastEdit EXCEPT
                                  !.texts = Put(@, <<id, field>>, newValue)]
    /\ sent' = <<>>
    /\ toasts' = {}
    /\ UNCHANGED <<stored, details, rows, tableLoading, expandedView, editingMode,
                   unsavedChanges>>
    /\ UNCHANGED <<pendingStages, passed>>
    /\ UNCHANGED <<viewVars, appVars>>

\* the user picks a date in a stage cell: the valueSetter changes the row
\* and calls debouncedSaveStages with the stages of the row
AutoEditStageDate ==
    /\ ~tableLoading
    /\ expandedView
    /\ \E i \in DOMAIN rows, stage \in AutoStages, newDate \in AutoDates :
          LET stages == valueSetter(rows[i].stages, stage, newDate)
          IN  /\ rows' = [rows EXCEPT ![i].stages = stages]
              /\ pendingStages' =
                    debounceCall(pendingStages, [id |-> rows[i].id, stages |-> stages])
              /\ lastEdit' = [lastEdit EXCEPT
                                  !.stages = Put(@, rows[i].id, RecordSet(stages))]
    /\ sent' = <<>>
    /\ toasts' = {}
    /\ UNCHANGED <<stored, details, cells, tableLoading, expandedView, editingMode,
                   unsavedChanges>>
    /\ UNCHANGED <<pendingCompany, passed>>
    /\ UNCHANGED <<viewVars, appVars>>

\* the requests of the debounced saves are taken to succeed
AutoFails == {FALSE}
AutoFailPoints == {0}

\* the timer of debouncedSaveCompany expires: saveCompany runs with the
\* arguments of the last call; when the request fails the rows are loaded again
FireCompany ==
    /\ pendingCompany # <<>>
    /\ \E fail \in AutoFails :
          LET args == pendingCompany[1]
              done == saveCompany([store |-> stored, details |-> details,
                                   requests |-> <<>>, toasts |-> {}],
                                  args.id, args.updates, fail)
          IN  /\ details' = done.details
              /\ sent' = done.requests
              /\ toasts' = done.toasts
              /\ passed' = [passed EXCEPT
                    !.texts = @ \cup
                        {[company |-> args.id, field |-> f, value |-> args.updates[f]] :
                            f \in DOMAIN args.updates}]
              /\ IF done.toasts # {}
                 THEN /\ rows' = rendered(sortedCompanies(stored), expandedView)
                      /\ cells' = details
                 ELSE UNCHANGED <<rows, cells>>
    /\ pendingCompany' = <<>>
    /\ tableLoading' = FALSE
    /\ UNCHANGED <<stored, expandedView, editingMode, unsavedChanges>>
    /\ UNCHANGED <<pendingStages, lastEdit>>
    /\ UNCHANGED <<viewVars, appVars>>

\* the timer of debouncedSaveStages expires: saveStages runs with the
\* arguments of the last call; when a request fails the rows are loaded again
FireStages ==
    /\ pendingStages # <<>>
    /\ \E failAt \in AutoFailPoints :
          LET args == pendingStages[1]
              done == autoSaveStages([store |-> stored, details |-> details,
                                      requests |-> <<>>, toasts |-> {}],
                                     args.id, args.stages, failAt)
          IN  /\ stored' = done.store
              /\ sent' = done.requests
              /\ toasts' = done.toasts
              /\ passed' = [passed EXCEPT
                    !.stages = @ \cup
                        {[company |-> args.id, value |-> RecordSet(args.stages)]}]
              /\ IF done.toasts # {}
                 THEN /\ rows' = rendered(sortedCompanies(done.store), expandedView)
                      /\ cells' = details
                 ELSE UNCHANGED <<rows, cells>>
    /\ pendingStages' = <<>>
    /\ tableLoading' = FALSE
    /\ UNCHANGED <<details, expandedView, editingMode, unsavedChanges>>
    /\ UNCHANGED <<pendingCompany, lastEdit>>
    /\ UNCHANGED <<viewVars, appVars>>

AutoNext ==
    TableLoadCompanies \/ ToggleView \/ AutoEditField \/ AutoEditStageDate
    \/ FireCompany \/ FireStages

AutoSpec == AutoInit /\ [][AutoNext]_vars

----------------------------------------------------------------------------
(* SankeyView under App: the project prop changes while requests are in
   flight (frontend/src/App.jsx, frontend/src/utils/api.js) *)

MaxProjects == 3
MaxFetches == 3

ProjectIds == 1 .. MaxProjects

\* the company list the server holds of project p: p companies, each applied
\* to on day 0
companiesOf(p) == [i \in 1 .. p |-> Company(i, <<Stage("Applied", 0)>>)]

\* the request of project id p that loadCompanies sends
fetchOf(p) == [project |-> p, status |-> "pending"]

\* SankeyView mounts with project 1: useState([]), useState(true), and the
\* effect on [project.id] has called loadCompanies
SwitchInit ==
    /\ server = companiesOf(1)
    /\ now = EarlyNow
    /\ companies = <<>>
    /\ loading = TRUE
    /\ asOf = now
    /\ walked = <<>>
    /\ sankeyData = computeSankeyData(<<>>, <<>>, now)
    /\ windowHeight = InnerHeight
    /\ TableNotShown
    /\ AutoIdle
    /\ currentProject = 1
    /\ projects = [i \in ProjectIds |-> i]
    /\ appLoading = FALSE
    /\ serverProjects = ProjectIds
    /\ projectLoads = <<>>
    /\ fetches = <<fetchOf(1)>>

\* the select of ProjectSelector: onProjectChange(project) sets
\* currentProject; SankeyView is rendered again with the new prop, its state
\* kept, and the effect on [project.id] calls loadCompanies: setLoading(true)
\* and a new request, the earlier ones still running
SwitchProject(p) ==
    /\ p # currentProject
    /\ Len(fetches) < MaxFetches
    /\ currentProject' = p
    /\ server' = companiesOf(p)
    /\ loading' = TRUE
    /\ fetches' = Append(fetches, fetchOf(p))
    /\ UNCHANGED <<companies, now, asOf, walked, sankeyData, windowHeight>>
    /\ UNCHANGED <<projects, appLoading, serverProjects, projectLoads>>
    /\ UNCHANGED <<tableVars, autoVars>>

\* the response of request i arrives: setCompanies(response.data), then
\* setLoading(false) in finally, and the render that recomputes sankeyData
FetchSucceeds(i) ==
    /\ fetches[i].status = "pending"
    /\ fetches' = [fetches EXCEPT ![i].status = "ok"]
    /\ loading' = FALSE
    /\ asOf' = now
    /\ LET data == companiesOf(fetches[i].project)
       IN  \E w \in SortChoices(data) :
               /\ walked' = w
               /\ sankeyData' = computeSankeyData(data, w, now)
               /\ companies' = companiesAfterRun(data, w)
    /\ UNCHANGED <<server, now, windowHeight>>
    /\ UNCHANGED <<currentProject, projects, appLoading, serverProjects, projectLoads>>
    /\ UNCHANGED <<tableVars, autoVars>>

\* request i fails: the catch logs, finally calls setLoading(false)
FetchFails(i) ==
    /\ fetches[i].status = "pending"
    /\ fetches' = [fetches EXCEPT ![i].status = "failed"]
    /\ loading' = FALSE
    /\ UNCHANGED <<server, companies, now, asOf, walked, sankeyData, windowHeight>>
    /\ UNCHANGED <<currentProject, projects, appLoading, serverProjects, projectLoads>>
    /\ UNCHANGED <<tableVars, autoVars>>

SwitchNext ==
    \/ \E p \in ProjectIds : SwitchProject(p)
    \/ \E i \in DOMAIN fetches : FetchSucceeds(i)
    \/ \E i \in DOMAIN fetches : FetchFails(i)

SwitchSpec == SwitchInit /\ [][SwitchNext]_vars

----------------------------------------------------------------------------
(* App and ProjectSelector: the project list and the current project
   (frontend/src/App.jsx, frontend/src/components/ProjectSelector.jsx) *)

MaxLoads == 2

\* the orders in which the server can list the projects it stores
listings(S) ==
    {l \in [1 .. Cardinality(S) -> S] :
        \A i, j \in 1 .. Cardinality(S) : i # j => l[i] # l[j]}

\* a call of loadProjects that awaits projectsAPI.getAll: the value of
\* currentProject in the render whose loadProjects was called, and the
\* handler that called it
loadOf(held, caller) == [closure |-> held, by |-> caller]

\* the sequence without its element i
answered(seq, i) ==
    [j \in 1 .. Len(seq) - 1 |-> IF j < i THEN seq[j] ELSE seq[j + 1]]

\* App mounts: useState(null), useState([]), useState(true), and the effect
\* has called loadProjects of the first render
AppInit ==
    /\ server = <<>>
    /\ now = EarlyNow
    /\ companies = <<>>
    /\ loading = TRUE
    /\ asOf = now
    /\ walked = <<>>
    /\ sankeyData = computeSankeyData(<<>>, <<>>, now)
    /\ windowHeight = InnerHeight
    /\ TableNotShown
    /\ AutoIdle
    /\ currentProject = NoProject
    /\ projects = <<>>
    /\ appLoading = TRUE
    /\ serverProjects \in SUBSET ProjectIds
    /\ projectLoads = <<loadOf(NoProject, "mount")>>
    /\ fetches = <<>>

\* loadProjects, the response of call i arriving: setProjects(response.data),
\* setCurrentProject(response.data[0]) if the list is not empty and the
\* currentProject of the closure is null, and setLoading(false)
LoadProjects(i) ==
    /\ \E data \in listings(serverProjects) :
          /\ projects' = data
          /\ currentProject' =
                IF Len(data) > 0 /\ projectLoads[i].closure = NoProject
                THEN data[1]
                ELSE currentProject
    /\ appLoading' = FALSE
    /\ projectLoads' = answered(projectLoads, i)
    /\ UNCHANGED <<serverProjects, fetches>>
    /\ UNCHANGED <<viewVars, tableVars, autoVars>>

\* loadProjects, the request of call i failing: only setLoading(false)
LoadProjectsFailed(i) ==
    /\ appLoading' = FALSE
    /\ projectLoads' = answered(projectLoads, i)
    /\ UNCHANGED <<currentProject, projects, serverProjects, fetches>>
    /\ UNCHANGED <<viewVars, tableVars, autoVars>>

\* handleCreateProject, the request succeeding: the server stores a new
\* project, onProjectsUpdate() calls the loadProjects of the render shown,
\* onProjectChange(response.data) makes the new project current
CreateProject(p) ==
    /\ ~appLoading
    /\ Len(projectLoads) < MaxLoads
    /\ p \notin serverProjects
    /\ p # currentProject
    /\ \A k \in DOMAIN projects : projects[k] # p
    /\ serverProjects' = serverProjects \cup {p}
    /\ projectLoads' = Append(projectLoads, loadOf(currentProject, "create"))
    /\ currentProject' = p
    /\ UNCHANGED <<projects, appLoading, fetches>>
    /\ UNCHANGED <<viewVars, tableVars, autoVars>>

\* handleDeleteProject, confirmed and the request succeeding: the server
\* drops the project, onProjectChange(null), then onProjectsUpdate() calls the
\* loadProjects of the render shown, in which currentProject is the project
\* that was deleted
DeleteProject ==
    /\ ~appLoading
    /\ Len(projectLoads) < MaxLoads
    /\ currentProject # NoProject
    /\ currentProject \in serverProjects
    /\ serverProjects' = serverProjects \ {currentProject}
    /\ currentProject' = NoProject
    /\ projectLoads' = Append(projectLoads, loadOf(currentProject, "delete"))
    /\ UNCHANGED <<projects, appLoading, fetches>>
    /\ UNCHANGED <<viewVars, tableVars, autoVars>>

\* the select of ProjectSelector: onProjectChange(projects.find(...))
SelectProject(p) ==
    /\ ~appLoading
    /\ p # currentProject
    /\ \E k \in DOMAIN projects : projects[k] = p
    /\ currentProject' = p
    /\ UNCHANGED <<projects, appLoading, serverProjects, projectLoads, fetches>>
    /\ UNCHANGED <<viewVars, tableVars, autoVars>>

AppNext ==
    \/ \E i \in DOMAIN projectLoads : LoadProjects(i)
    \/ \E i \in DOMAIN projectLoads : LoadProjectsFailed(i)
    \/ \E p \in ProjectIds : CreateProject(p)
    \/ DeleteProject
    \/ \E p \in ProjectIds : SelectProject(p)

AppSpec == AppInit /\ [][AppNext]_vars

----------------------------------------------------------------------------
(* Vocabulary of the properties *)

Vocabulary == {"Applied", "First Interview", "Technical Interview",
               "Final Interview", "Offer", "Rejected"}

\* place of a recognized name in the canonical vocabulary
VocabularyIndex(name) == CHOOSE k \in 1 .. 6 : stageOrder[k] = name

NameSet(stages) == {stages[p].stage_name : p \in DOMAIN stages}

\* the stage set of a company, literal 'No Answer' stages removed
StageSet(c) == NameSet(c.stages) \ {"No Answer"}

\* the company passes the no-stage, 'No Answer'-filter and entry-stage gates
Included(c) == "Applied" \in StageSet(c)

\* the stage carries a calendar date; a missing date and a string that is
\* not a date both leave the stage undated
HasDate(st) == st.date \notin {NoDate, BadDate}

\* the chronologically final stage of company i
FinalStage(i) == walked[i][Len(walked[i])]

\* the final stage of company i is dated and older than 30 days at asOf
FinalStageIsOld(i) ==
    /\ Len(walked[i]) > 0
    /\ HasDate(FinalStage(i))
    /\ asOf - FinalStage(i).date * TicksPerDay > StaleDays * TicksPerDay

\* a sequence without its i-th element
Without(seq, i) ==
    [j \in 1 .. Len(seq) - 1 |-> IF j < i THEN seq[j] ELSE seq[j + 1]]

\* the graph of the company list without company i
GraphWithout(i) == computeSankeyData(Without(companies, i), Without(walked, i), asOf)

RECURSIVE SumOver(_, _)
SumOver(f, S) ==
    IF S = {} THEN 0
    ELSE LET x == CHOOSE x \in S : TRUE IN f[x] + SumOver(f, S \ {x})

\* weight of the edge s -> t of graph G, the edge given by the names on the link
LinkWeight(G, s, t) ==
    SumOver([k \in DOMAIN G.labels |-> G.labels[k].count],
            {k \in DOMAIN G.labels : G.labels[k].source = s /\ G.labels[k].target = t})

\* weight of the edge s -> t of graph G, the edge given by the node indices
EdgeWeight(G, s, t) ==
    SumOver(G.value,
            {k \in DOMAIN G.value : /\ G.source[k] = nodeMapGet(G.nodeList, s)
                                    /\ G.target[k] = nodeMapGet(G.nodeList, t)})

InList(G, name) == \E k \in DOMAIN G.nodeList : G.nodeList[k] = name

\* the occupancy count shown for a node of G
Occupancy(G, name) == G.label[nodeMapGet(G.nodeList, name) + 1]

AllStages == UNION {{c.stages[p] : p \in DOMAIN c.stages} :
                       c \in {companies[i] : i \in DOMAIN companies}}

AllNamesSeen == {st.stage_name : st \in AllStages}

----------------------------------------------------------------------------
(* C1 *)

\* C1: the walked stage sequence of every company is ordered by date
\* ascending, undated stages come after all dated ones, and stages of the same
\* date (or both undated) are in canonical-vocabulary order
C1_ChronologicalOrder ==
    \A i \in DOMAIN walked : \A p, q \in DOMAIN walked[i] :
        LET a == walked[i][p]
            b == walked[i][q]
        IN  p < q =>
              /\ (HasDate(a) /\ HasDate(b)) => a.date <= b.date
              /\ ~(~HasDate(a) /\ HasDate(b))
              /\ ( /\ (a.date = b.date \/ (~HasDate(a) /\ ~HasDate(b)))
                   /\ a.stage_name \in Vocabulary
                   /\ b.stage_name \in Vocabulary )
                 => VocabularyIndex(a.stage_name) <= VocabularyIndex(b.stage_name)

----------------------------------------------------------------------------
(* C2 *)

\* the staleness predicate as the claim words it: decided by the final stage
StaleByFinalStage(i) ==
    /\ Included(companies[i])
    /\ FinalStageIsOld(i)
    /\ FinalStage(i).stage_name \notin {"Offer", "Rejected"}

\* the staleness predicate decided by the stage set
StaleByStageSet(i) ==
    /\ Included(companies[i])
    /\ FinalStageIsOld(i)
    /\ "Offer" \notin StageSet(companies[i])
    /\ "Rejected" \notin StageSet(companies[i])

\* C2 as claimed: the edges into 'No Answer' count, per source stage, the
\* companies whose final stage is neither Offer nor Rejected, is dated and is
\* more than 30 days old; the node exists iff there is such a company
C2_StaleByFinalStage ==
    /\ \A s \in AllNamesSeen :
          LinkWeight(sankeyData, s, "No Answer") =
             Cardinality({i \in DOMAIN companies :
                            StaleByFinalStage(i) /\ FinalStage(i).stage_name = s})
    /\ InList(sankeyData, "No Answer") <=>
          \E i \in DOMAIN companies : StaleByFinalStage(i)

\* C2 amended: the same with 'the stage set of the company contains neither
\* Offer nor Rejected' in place of 'the final stage is neither Offer nor
\* Rejected'
C2_StaleByStageSet ==
    /\ \A s \in AllNamesSeen \cup {"No Answer"} :
          LinkWeight(sankeyData, s, "No Answer") =
             Cardinality({i \in DOMAIN companies :
                            StaleByStageSet(i) /\ FinalStage(i).stage_name = s})
    /\ InList(sankeyData, "No Answer") <=>
          \E i \in DOMAIN companies : StaleByStageSet(i)

\* the example of the claim: only Applied at day 0, read more than 30 days on
C2_Witness ==
    /\ ~loading
    /\ companies = <<Company(1, <<Stage("Applied", 0)>>)>>
    /\ asOf > StaleDays * TicksPerDay
    /\ sankeyData.nodeList = <<"Applied", "No Answer">>
    /\ sankeyData.labels = <<[source |-> "Applied", target |-> "No Answer", count |-> 1]>>
    /\ sankeyData.source = <<0>>
    /\ sankeyData.target = <<1>>
    /\ sankeyData.value = <<1>>

----------------------------------------------------------------------------
(* C3 *)

\* C3: a company holding Offer or Rejected adds nothing to the edges into
\* 'No Answer' nor to the occupancy of 'No Answer': both are as they are for
\* the list without that company
C3_NoDoubleCounting ==
    \A i \in DOMAIN companies :
        (StageSet(companies[i]) \cap {"Offer", "Rejected"} # {}) =>
            LET G == GraphWithout(i)
            IN  /\ \A s \in AllNamesSeen :
                      LinkWeight(sankeyData, s, "No Answer") = LinkWeight(G, s, "No Answer")
                /\ InList(sankeyData, "No Answer") <=> InList(G, "No Answer")
                /\ InList(sankeyData, "No Answer") =>
                      Occupancy(sankeyData, "No Answer") = Occupancy(G, "No Answer")

\* a resolved company whose final stage is old was aggregated
C3_Witness ==
    /\ ~loading
    /\ \E i \in DOMAIN companies :
          /\ Included(companies[i])
          /\ StageSet(companies[i]) \cap {"Offer", "Rejected"} # {}
          /\ FinalStageIsOld(i)
          /\ FinalStage(i).stage_name \notin {"Offer", "Rejected"}
    /\ ~InList(sankeyData, "No Answer")

----------------------------------------------------------------------------
(* C4, C5 *)

\* C4: a company without 'Applied' contributes no node and no edge: the node
\* list and the links are those of the list without that company
C4_EntryGate ==
    \A i \in DOMAIN companies :
        ~Included(companies[i]) =>
            LET G == GraphWithout(i)
            IN  /\ sankeyData.nodeList = G.nodeList
                /\ sankeyData.source = G.source
                /\ sankeyData.target = G.target
                /\ sankeyData.value = G.value
                /\ sankeyData.labels = G.labels

\* a company with stages but without 'Applied' was aggregated next to an
\* included one
C4_Witness ==
    /\ ~loading
    /\ \E i, j \in DOMAIN companies :
          /\ ~Included(companies[i])
          /\ StageSet(companies[i]) # {}
          /\ Included(companies[j])
          /\ StageSet(companies[i]) \cap StageSet(companies[j]) # {}

\* C5: a company without 'Applied' leaves every occupancy count unchanged
C5_EntryGateOccupancy ==
    \A i \in DOMAIN companies :
        ~Included(companies[i]) =>
            LET G == GraphWithout(i)
            IN  /\ sankeyData.label = G.label
                /\ sankeyData.customdata = G.customdata

----------------------------------------------------------------------------
(* C6 *)

\* the adjacent positions of the walked sequences that go from s to t
Transitions(s, t) ==
    {<<i, p>> \in (DOMAIN companies) \X (1 .. MaxStages + 2) :
        /\ Included(companies[i])
        /\ p < Len(walked[i])
        /\ walked[i][p].stage_name = s
        /\ walked[i][p + 1].stage_name = t}

\* C6: the weight of an edge between two nodes is the number of adjacent
\* positions going from the one to the other, plus, into 'No Answer', the
\* companies inferred stale with that final stage
C6_EdgeWeightCountsTransitions ==
    \A k1, k2 \in DOMAIN sankeyData.nodeList :
        LET s == sankeyData.nodeList[k1]
            t == sankeyData.nodeList[k2]
        IN  EdgeWeight(sankeyData, s, t) =
               Cardinality(Transitions(s, t))
               + IF t = "No Answer"
                 THEN Cardinality({i \in DOMAIN companies :
                                     StaleByStageSet(i) /\ FinalStage(i).stage_name = s})
                 ELSE 0

\* two companies both went from Applied to First Interview
C6_Witness ==
    /\ ~loading
    /\ Cardinality({i \in DOMAIN companies :
                       <<i, 1>> \in Transitions("Applied", "First Interview")}) = 2
    /\ EdgeWeight(sankeyData, "Applied", "First Interview") = 2

----------------------------------------------------------------------------
(* C7, C8 *)

\* C7: the occupancy of a node other than 'No Answer' is the number of
\* companies of the list whose filtered stage set contains the name
C7_OccupancyCountsCompanies ==
    \A k \in DOMAIN sankeyData.nodeList :
        sankeyData.nodeList[k] # "No Answer" =>
            /\ sankeyData.label[k] =
                  Cardinality({i \in DOMAIN companies :
                                 sankeyData.nodeList[k] \in StageSet(companies[i])})
            /\ sankeyData.customdata[k] = sankeyData.label[k]

\* a node held by one company in two stage records, counted once
C7_Witness ==
    /\ ~loading
    /\ \E k \in DOMAIN sankeyData.nodeList :
          LET X == sankeyData.nodeList[k]
          IN  /\ X # "No Answer"
              /\ sankeyData.label[k] = 1
              /\ \E i \in DOMAIN companies :
                    Cardinality({p \in DOMAIN companies[i].stages :
                                    companies[i].stages[p].stage_name = X}) = 2
              /\ \E s \in AllNamesSeen : EdgeWeight(sankeyData, s, X) = 1

\* C8: the occupancy of 'No Answer' is the number of companies that get an
\* edge into 'No Answer'
C8_NoAnswerOccupancy ==
    InList(sankeyData, "No Answer") =>
        Occupancy(sankeyData, "No Answer") =
            Cardinality({i \in DOMAIN companies : StaleByStageSet(i)})

----------------------------------------------------------------------------
(* C9, C10 *)

\* C9: whatever the order of the records in a company's stages array, the
\* sort yields the sequence that was walked
C9_InputOrderIndependence ==
    \A i \in DOMAIN companies :
        \A permuted \in AllOrders(filteredStages(companies[i].stages)) :
            \A sorted \in sortStagesByDateThenOrder(permuted) :
                sorted = walked[i]

\* C10: on the stage records of the company list the comparator is
\* antisymmetric in sign and transitive, and equal only for records of the
\* same date and stage name
C10_ComparatorTotalOrder ==
    \A a, b, c \in AllStages :
        /\ (SortCompare(a, b) < 0) <=> (SortCompare(b, a) > 0)
        /\ (SortCompare(a, b) = 0) <=> (SortCompare(b, a) = 0)
        /\ (SortCompare(a, b) <= 0 /\ SortCompare(b, c) <= 0) => SortCompare(a, c) <= 0
        /\ SortCompare(a, b) = 0 => (a.date = b.date /\ a.stage_name = b.stage_name)

----------------------------------------------------------------------------
(* C11, C12 *)

----------------------------------------------------------------------------
(* C13 *)

\* the names the node list is claimed to hold
ExpectedNodes ==
    UNION {StageSet(companies[i]) : i \in {j \in DOMAIN companies : Included(companies[j])}}
    \cup (IF \E i \in DOMAIN companies : StaleByStageSet(i) THEN {"No Answer"} ELSE {})

\* C13: the node list holds exactly the stage names of the included
\* companies, plus 'No Answer' iff a company is inferred stale, each once, in
\* canonical-vocabulary order, 'No Answer' last
C13_NodeListContentAndOrder ==
    LET nodeList == sankeyData.nodeList
    IN  /\ {nodeList[k] : k \in DOMAIN nodeList} = ExpectedNodes
        /\ \A k1, k2 \in DOMAIN nodeList : nodeList[k1] = nodeList[k2] => k1 = k2
        /\ \A k1, k2 \in DOMAIN nodeList :
              (k1 < k2 /\ nodeList[k1] \in Vocabulary /\ nodeList[k2] \in Vocabulary)
                 => VocabularyIndex(nodeList[k1]) < VocabularyIndex(nodeList[k2])
        /\ \A k \in DOMAIN nodeList : nodeList[k] = "No Answer" => k = Len(nodeList)

----------------------------------------------------------------------------
(* C14 *)

\* C14: in the walked sequence of every company no stage whose date is
\* missing or garbled comes before a validly dated stage
C14_GarbledDateIsUndated ==
    \A i \in DOMAIN walked : \A p, q \in DOMAIN walked[i] :
        (p < q /\ ~HasDate(walked[i][p])) => ~HasDate(walked[i][q])

----------------------------------------------------------------------------
(* C15 *)

\* the stage names of included companies that the vocabulary does not hold
UnknownNames ==
    UNION {StageSet(companies[i]) : i \in {j \in DOMAIN companies : Included(companies[j])}}
    \ Vocabulary

\* C15: every unrecognized stage name of an included company is a node, placed
\* after all recognized names, and every link that has it as source or target
\* carries the index of that node
C15_UnknownNamesBecomeNodes ==
    \A X \in UnknownNames :
        /\ InList(sankeyData, X)
        /\ \A k \in DOMAIN sankeyData.nodeList :
              sankeyData.nodeList[k] \in Vocabulary
                 => k - 1 < nodeMapGet(sankeyData.nodeList, X)
        /\ \A k \in DOMAIN sankeyData.labels :
              /\ sankeyData.labels[k].source = X
                    => sankeyData.source[k] = nodeMapGet(sankeyData.nodeList, X)
              /\ sankeyData.labels[k].target = X
                    => sankeyData.target[k] = nodeMapGet(sankeyData.nodeList, X)

----------------------------------------------------------------------------
(* C16 *)

\* the stage records that are not named 'No Answer'
WithoutNoAnswer(stages) == SelectSeq(stages, LAMBDA st : st.stage_name # "No Answer")

\* the company list with every stage record named 'No Answer' removed
Cleaned == [i \in DOMAIN companies |->
               [companies[i] EXCEPT !.stages = WithoutNoAnswer(companies[i].stages)]]

\* C16: the graph is the graph of the company list with all 'No Answer'
\* records removed, and no link has 'No Answer' as its source
C16_LiteralNoAnswerIsNoise ==
    Len(walked) > 0 =>
        /\ walked \in SortChoices(Cleaned)
        /\ sankeyData = computeSankeyData(Cleaned, walked, asOf)
        /\ \A k \in DOMAIN sankeyData.labels : sankeyData.labels[k].source # "No Answer"

\* an included company with a stored 'No Answer' stage, dated before a later
\* stage, was aggregated
C16_Witness ==
    /\ ~loading
    /\ \E i \in DOMAIN companies :
          /\ Included(companies[i])
          /\ Len(companies[i].stages) >= 2
          /\ companies[i].stages[1].stage_name = "No Answer"
          /\ HasDate(companies[i].stages[1])
          /\ Len(walked[i]) = Len(companies[i].stages) - 1
    /\ Len(sankeyData.nodeList) > 0

----------------------------------------------------------------------------
(* C17 *)

\* C17: the walked sequence of every included company starts at 'Applied',
\* and no link has 'Applied' as its target
C17_RootedAtApplied ==
    /\ \A i \in DOMAIN walked :
          Included(companies[i]) => walked[i][1].stage_name = "Applied"
    /\ \A k \in DOMAIN sankeyData.labels : sankeyData.labels[k].target # "Applied"

----------------------------------------------------------------------------
(* C18 *)

\* company i, its only stage being X, adds no link between stages, X is a
\* node, and the company is counted in the occupancy of X
SingleStageContribution(i) ==
    LET X == walked[i][1].stage_name
        G == GraphWithout(i)
    IN  /\ InList(sankeyData, X)
        /\ Occupancy(sankeyData, X) =
              1 + Cardinality({j \in DOMAIN companies \ {i} : X \in StageSet(companies[j])})
        /\ \A s, t \in AllNamesSeen \ {"No Answer"} :
              LinkWeight(sankeyData, s, t) = LinkWeight(G, s, t)

\* C18 as claimed: every company with exactly one filtered stage adds no link
\* between stages, registers its stage as a node and is counted there
C18_SingleStageCompany ==
    \A i \in DOMAIN walked : Len(walked[i]) = 1 => SingleStageContribution(i)

\* C18 amended: the same for the companies whose one filtered stage is
\* 'Applied'; with another single stage the entry gate drops the company
C18_SingleAppliedStageCompany ==
    \A i \in DOMAIN walked :
        (Len(walked[i]) = 1 /\ Included(companies[i])) => SingleStageContribution(i)

\* a company with 'Applied' alone, not stale: the node is there through the
\* first stage only
C18_Witness ==
    /\ ~loading
    /\ \E i \in DOMAIN walked :
          /\ Len(walked[i]) = 1
          /\ Included(companies[i])
          /\ ~StaleByStageSet(i)
    /\ sankeyData.nodeList = <<"Applied">>
    /\ sankeyData.labels = <<>>
    /\ sankeyData.label = <<1>>

----------------------------------------------------------------------------
(* C20 *)

\* C20: at every moment the graph shown is the aggregator's result for the
\* company list held and the current date
C20_Freshness ==
    sankeyData = computeSankeyData(companies, walked, now)

----------------------------------------------------------------------------
(* C19 *)

\* C19: no request the table sends creates or updates a stage named
\* 'No Answer'
C19_NoAnswerNeverPersisted ==
    \A k \in DOMAIN sent :
        sent[k].op \in {"create", "update"} => sent[k].stage_name # "No Answer"

----------------------------------------------------------------------------
(* C21 *)

\* C21: when the company list is empty, or every company of it is discarded
\* by the no-stage, 'No Answer'-filter or entry-stage gate, the graph has no
\* node and no edge
C21_EmptyListEmptyGraph ==
    (\A i \in DOMAIN companies : ~Included(companies[i])) =>
        /\ sankeyData.nodeList = <<>>
        /\ sankeyData.label = <<>>
        /\ sankeyData.labels = <<>>
        /\ sankeyData.source = <<>>
        /\ sankeyData.target = <<>>
        /\ sankeyData.value = <<>>

\* a loaded list of two companies, one without stages and one without
\* 'Applied', was aggregated
C21_Witness ==
    /\ ~loading
    /\ Len(walked) = 2
    /\ \E i, j \in DOMAIN companies :
          /\ Len(companies[i].stages) = 0
          /\ Len(companies[j].stages) > 0
          /\ ~Included(companies[j])
    /\ sankeyData.nodeList = <<>>

----------------------------------------------------------------------------
(* C22 *)

\* how often record r occurs in seq
Count(seq, r) == Cardinality({p \in DOMAIN seq : seq[p] = r})

\* the names that company i holds in two or more walked records
RepeatedIn(i) ==
    {n \in NameSet(walked[i]) :
        Cardinality({p \in DOMAIN walked[i] : walked[i][p].stage_name = n}) >= 2}

\* C22: every record of an included company stays in its walked sequence,
\* records of one name included; every adjacent pair of the sequence is
\* counted in the edge between its two names, a pair of one name in the
\* self-edge of that name; and a name held in several records is exactly one
\* node
C22_DuplicatesAreSeparateEvents ==
    \A i \in DOMAIN walked :
        Included(companies[i]) =>
            /\ Len(walked[i]) = Len(filteredStages(companies[i].stages))
            /\ \A p \in DOMAIN walked[i] :
                  Count(walked[i], walked[i][p]) =
                     Count(filteredStages(companies[i].stages), walked[i][p])
            /\ \A p \in 1 .. Len(walked[i]) - 1 :
                  LET s == walked[i][p].stage_name
                      t == walked[i][p + 1].stage_name
                  IN  /\ <<i, p>> \in Transitions(s, t)
                      /\ LinkWeight(sankeyData, s, t) = Cardinality(Transitions(s, t))
            /\ \A n \in RepeatedIn(i) :
                  Cardinality({k \in DOMAIN sankeyData.nodeList :
                                  sankeyData.nodeList[k] = n}) = 1

----------------------------------------------------------------------------
(* C23 *)

\* a request that changes what the server stores
Writes(req) == req.op \in {"create", "update", "delete", "companies.update"}

\* C23: whenever the table holds an edit that was not sent, a request that
\* writes to the server is sent later on, without the Save button
C23_EditsAreSavedAutomatically ==
    (unsavedChanges # <<>>) ~> (\E k \in DOMAIN sent : Writes(sent[k]))

----------------------------------------------------------------------------
(* C25 *)

\* C25: 'All changes saved successfully' is reported only when every request
\* of the save succeeded; when a request failed the changes are kept, the
\* editing mode is not left and 'Failed to save some changes' is reported
C25_SuccessOnlyOnSuccess ==
    /\ "All changes saved successfully" \in toasts =>
          \A k \in DOMAIN sent : sent[k].ok
    /\ (\E k \in DOMAIN sent : ~sent[k].ok) =>
          /\ "Failed to save some changes" \in toasts
          /\ editingMode
          /\ unsavedChanges # <<>>

----------------------------------------------------------------------------
(* C26 *)

\* the step is a run of saveAllChanges
SaveStep == editingMode /\ "All changes saved successfully" \in toasts'

\* C26: a run of saveAllChanges sends, for every company of unsavedChanges
\* and every field among name, position and link recorded for it, an update
\* request for that company that carries the recorded value
C26_EveryTrackedFieldIsSent ==
    [][SaveStep =>
         \A c \in DOMAIN unsavedChanges :
            \A f \in Fields \cap DOMAIN unsavedChanges[c] :
               \E k \in DOMAIN sent' :
                  /\ sent'[k].op = "companies.update"
                  /\ sent'[k].company = c
                  /\ f \in DOMAIN sent'[k].updates
                  /\ sent'[k].updates[f] = unsavedChanges[c][f]]_vars

----------------------------------------------------------------------------
(* C27 *)

\* no two records of the list carry one name
UniqueNames(stages) ==
    \A p, q \in DOMAIN stages : stages[p].stage_name = stages[q].stage_name => p = q

\* a request of the given kind for the stage name was sent in the step
SentFor(reqs, c, op, name) ==
    \E k \in DOMAIN reqs :
        /\ reqs[k].op = op
        /\ reqs[k].company = c
        /\ reqs[k].stage_name = name

\* C27: when a run of saveAllChanges ends with no request failed, then for
\* every company with tracked stages, names unique in the local list and on
\* the server, the server holds exactly the records of the local list; the
\* server's stages absent locally were deleted, those present updated, the
\* new ones created; the other companies and the text fields are untouched
C27_SaveStagesReconciles ==
    [][(SaveStep /\ \A k \in DOMAIN sent' : sent'[k].ok) =>
         /\ \A c \in DOMAIN unsavedChanges \cap DOMAIN stored :
               ("stages" \in DOMAIN unsavedChanges[c]
                   /\ UniqueNames(unsavedChanges[c].stages)
                   /\ UniqueNames(stored[c])) =>
                  LET local == unsavedChanges[c].stages
                  IN  /\ RecordSet(stored'[c]) = RecordSet(local)
                      /\ Len(stored'[c]) = Len(local)
                      /\ \A p \in DOMAIN stored[c] :
                            SentFor(sent', c,
                                    IF stored[c][p].stage_name \in NameSet(local)
                                    THEN "update" ELSE "delete",
                                    stored[c][p].stage_name)
                      /\ \A p \in DOMAIN local :
                            SentFor(sent', c,
                                    IF local[p].stage_name \in NameSet(stored[c])
                                    THEN "update" ELSE "create",
                                    local[p].stage_name)
         /\ \A c \in DOMAIN stored \ DOMAIN unsavedChanges : stored'[c] = stored[c]
         /\ DOMAIN stored' = DOMAIN stored
         /\ details' = details]_vars

\* a save that deleted one stage, updated another and created a third, no
\* request failing, has run
C27_Witness ==
    /\ "All changes saved successfully" \in toasts
    /\ \A k \in DOMAIN sent : sent[k].ok
    /\ \E c \in DOMAIN stored :
          /\ \E n \in NameSet(stored[c]) : SentFor(sent, c, "update", n)
          /\ \E n \in NameSet(stored[c]) : SentFor(sent, c, "create", n)
          /\ \E n \in EditedStages \ NameSet(stored[c]) : SentFor(sent, c, "delete", n)

----------------------------------------------------------------------------
(* C24 *)

\* C24: once no debounced call is waiting, the last value of every edited
\* company and field was passed to saveCompany or saveStages for that company
C24_NoEditLostToDebouncing ==
    (pendingCompany = <<>> /\ pendingStages = <<>>) =>
        /\ \A k \in DOMAIN lastEdit.texts :
              [company |-> k[1], field |-> k[2], value |-> lastEdit.texts[k]]
                 \in passed.texts
        /\ \A c \in DOMAIN lastEdit.stages :
              [company |-> c, value |-> lastEdit.stages[c]] \in passed.stages

----------------------------------------------------------------------------
(* C29 *)

\* the sum of the weights of all edges of graph G whose target is the node
WeightInto(G, name) ==
    SumOver(G.value,
            {k \in DOMAIN G.value : G.target[k] = nodeMapGet(G.nodeList, name)})

\* C29: in every graph that contains 'No Answer', the occupancy count shown
\* for it equals the sum of the weights of the edges that end in it
C29_NoAnswerCountMatchesEdges ==
    InList(sankeyData, "No Answer") =>
        Occupancy(sankeyData, "No Answer") = WeightInto(sankeyData, "No Answer")

----------------------------------------------------------------------------
(* C28 *)

\* C28: once every request SankeyView sent has been answered, none of them
\* failing, the companies it holds are those of the selected project and the
\* loading flag is false, in whatever order the responses arrived
C28_DataMatchesSelectedProject ==
    (\A i \in DOMAIN fetches : fetches[i].status = "ok") =>
        /\ ~loading
        /\ companies = companiesOf(currentProject)

----------------------------------------------------------------------------
(* C30 *)

\* C30: when the reload of the project list that follows the deletion of the
\* current project completes, a project of the loaded list is the current
\* project if the list is not empty, and no project is current (the 'No
\* projects found' screen) if it is empty
C30_RemainingProjectSelected ==
    [][\A i \in DOMAIN projectLoads :
          (projectLoads[i].by = "delete" /\ LoadProjects(i)) =>
              IF projects' = <<>>
              THEN currentProject' = NoProject
              ELSE \E k \in DOMAIN projects' : projects'[k] = currentProject']_vars

====
